---- MODULE Spec2Model ----
(***************************************************************************)
(* librsv (src/lib.rs): the RSV codec.  RsvWriter assembles a byte buffer  *)
(* from start_row / push calls, RsvReader::rows and RsvRow::values split a *)
(* buffer lazily, encode_rsv / decode_rsv compose the two.                 *)
(*                                                                         *)
(* Byte strings (Vec<u8>, &[u8], String, &str) are sequences of integers   *)
(* in 0..255.  Option<T> is <<"None">> or <<"Some", x>>, Result<T, E> is   *)
(* <<"Ok", x>> or <<"Err", e>>.  Error is modelled by its variant name:    *)
(* the Utf8Error payload of BadUTF8 is not modelled.                       *)
(***************************************************************************)
EXTENDS Integers, Sequences, FiniteSets, TLC

\* ------------------------------------------------------------------ bounds
\* Longest caller-supplied raw buffer (RsvReader::new, RsvRow::new,
\* with_buffer).
MaxLen == 3
\* Cap on the writer's buffer while start_row / push are called by hand.
MaxBuf == 4
\* Longest encoding of a document handed to encode_rsv.
MaxDoc == 7
\* Longest string value pushed, in bytes.
MaxStr == 2
\* Most polls made on one rows() or values() sequence.
MaxPolls == 5

\* --------------------------------------------------------------- constants
END_ROW == 253
NULL_VALUE == 254
END_VALUE == 255

\* The bytes the model draws from: 'a', the two bytes of U+00E9 (0xC3 0xA9,
\* each invalid on its own), and the three reserved bytes.
Bytes == {97, 195, 169, END_ROW, NULL_VALUE, END_VALUE}

\* ------------------------------------------------------ Option and Result
None == <<"None">>
Some(x) == <<"Some", x>>
Ok(x) == <<"Ok", x>>
Err(e) == <<"Err", e>>
IsSome(o) == o[1] = "Some"
IsOk(r) == r[1] = "Ok"
IsErr(r) == r[1] = "Err"

UnterminatedRow == "UnterminatedRow"
UnterminatedValue == "UnterminatedValue"
BadUTF8 == "BadUTF8"

\* ------------------------------------------------------------ std helpers
\* Iterator::position: Some(zero-based index of the first c), or None.
RECURSIVE position_from(_, _, _)
position_from(s, c, i) ==
  IF i > Len(s) THEN None
  ELSE IF s[i] = c THEN Some(i - 1)
  ELSE position_from(s, c, i + 1)

position(s, c) == position_from(s, c, 1)

\* slice::split_at(mid): the first mid bytes and the rest.
split_at(s, mid) == <<SubSeq(s, 1, mid), SubSeq(s, mid + 1, Len(s))>>

IsCont(b) == b >= 128 /\ b <= 191

\* Length of the well-formed UTF-8 sequence that starts at s[i], 0 if none
\* does (the table of the Unicode standard, as std::str::from_utf8 applies it).
utf8_char_len(s, i) ==
  LET b == s[i]
      n == Len(s)
      c1 == IF i + 1 <= n THEN s[i + 1] ELSE 0
      c2 == IF i + 2 <= n THEN s[i + 2] ELSE 0
      c3 == IF i + 3 <= n THEN s[i + 3] ELSE 0
  IN  IF b < 128 THEN 1
      ELSE IF b >= 194 /\ b <= 223 THEN (IF IsCont(c1) THEN 2 ELSE 0)
      ELSE IF b = 224 THEN (IF c1 >= 160 /\ c1 <= 191 /\ IsCont(c2) THEN 3 ELSE 0)
      ELSE IF (b >= 225 /\ b <= 236) \/ b = 238 \/ b = 239
        THEN (IF IsCont(c1) /\ IsCont(c2) THEN 3 ELSE 0)
      ELSE IF b = 237 THEN (IF c1 >= 128 /\ c1 <= 159 /\ IsCont(c2) THEN 3 ELSE 0)
      ELSE IF b = 240
        THEN (IF c1 >= 144 /\ c1 <= 191 /\ IsCont(c2) /\ IsCont(c3) THEN 4 ELSE 0)
      ELSE IF b >= 241 /\ b <= 243
        THEN (IF IsCont(c1) /\ IsCont(c2) /\ IsCont(c3) THEN 4 ELSE 0)
      ELSE IF b = 244
        THEN (IF c1 >= 128 /\ c1 <= 143 /\ IsCont(c2) /\ IsCont(c3) THEN 4 ELSE 0)
      ELSE 0

RECURSIVE utf8_valid_from(_, _)
utf8_valid_from(s, i) ==
  IF i > Len(s) THEN TRUE
  ELSE LET k == utf8_char_len(s, i)
       IN  k > 0 /\ utf8_valid_from(s, i + k)

\* std::str::from_utf8(bytes).map_err(Error::BadUTF8)
from_utf8(bytes) == IF utf8_valid_from(bytes, 1) THEN Ok(bytes) ELSE Err(BadUTF8)

\* str::to_string: an owned copy of the bytes of the view.
to_string(v) == [i \in 1..Len(v) |-> v[i]]

\* ----------------------------------------------------------- input domains
RECURSIVE BufsOfLen(_)
BufsOfLen(n) ==
  IF n = 0 THEN {<<>>}
  ELSE {Append(s, b) : s \in BufsOfLen(n - 1), b \in Bytes}

\* Every byte string of at most n bytes.
Bufs(n) == UNION {BufsOfLen(k) : k \in 0..n}

\* The &str values a caller can pass: valid UTF-8 by the type's invariant.
Strs == {s \in Bufs(MaxStr) : utf8_valid_from(s, 1)}

\* Option<&str>
Values == {None} \cup {Some(s) : s \in Strs}

ValueSize(v) == IF v = None THEN 2 ELSE Len(v[2]) + 1

RECURSIVE RowSize(_)
RowSize(row) == IF row = <<>> THEN 0 ELSE ValueSize(Head(row)) + RowSize(Tail(row))

\* Rows whose values take at most n bytes on the wire.
RECURSIVE RowsOfSize(_)
RowsOfSize(n) ==
  {<<>>} \cup
  UNION {{<<v>> \o r : r \in RowsOfSize(n - ValueSize(v))} :
           v \in {w \in Values : ValueSize(w) <= n}}

\* Documents that take at most n bytes on the wire.
RECURSIVE DocsOfSize(_)
DocsOfSize(n) ==
  {<<>>} \cup
  (IF n = 0 THEN {}
   ELSE UNION {{<<r>> \o d : d \in DocsOfSize(n - 1 - RowSize(r))} :
                 r \in RowsOfSize(n - 1)})

Docs == DocsOfSize(MaxDoc)

\* ------------------------------------------------------------------ state
VARIABLES
  pc,            \* "writing" | "panicked" | "finished" | "encoding" | "raw"
  existing,      \* the buffer the writer was created with (history)
  writer,        \* RsvWriter: [buffer, started_row]
  calls,         \* start_row / push calls made on the writer (history)
  input,         \* <<rows>>: the document handed to encode_rsv, else <<>>
  data,          \* the finished buffer / the buffer given to the reader
  decoded,       \* <<result>> of decode_rsv(data), <<>> before the call
  borrowed,      \* <<result>> of decode_rsv_borrowed(data), <<>> before the call
  seqs,          \* the sequences held at once over the same reader and row
  rows_iter,     \* the sequence returned by RsvReader::rows()
  cur_row,       \* Some(the RsvRow the caller holds), else None
  values_iter    \* the sequence returned by RsvRow::values()

vars ==
  <<pc, existing, writer, calls, input, data, decoded, borrowed, seqs, rows_iter, cur_row,
    values_iter>>

writerVars == <<existing, writer, calls, input>>
readerVars == <<rows_iter, cur_row, values_iter>>

\* ----------------------------------------------------------------- writer
\* Mutant of with_buffer: starts from an empty buffer, dropping the given one.
with_buffer_fresh(buffer) == [buffer |-> <<>>, started_row |-> FALSE]

\* Mutant of with_buffer: takes a non-empty buffer for a row in progress.
with_buffer_resume(buffer) == [buffer |-> buffer, started_row |-> buffer # <<>>]

\* Mutant of with_buffer: closes a buffer that does not end with a row
\* terminator before appending to it.
with_buffer_terminate(buffer) ==
  [buffer |-> IF buffer # <<>> /\ buffer[Len(buffer)] # END_ROW
              THEN Append(buffer, END_ROW) ELSE buffer,
   started_row |-> FALSE]

\* RsvWriter::with_buffer: started_row comes from Default, which is false.
with_buffer(buffer) == [buffer |-> buffer, started_row |-> FALSE]

\* RsvWriter::new
new == with_buffer(<<>>)

\* Mutant of start_row: writes the row terminator eagerly, also before the
\* first row.
start_row_eager(self) ==
  [buffer |-> Append(self.buffer, END_ROW), started_row |-> TRUE]

\* RsvWriter::start_row
start_row(self) ==
  [buffer |-> IF self.started_row THEN Append(self.buffer, END_ROW) ELSE self.buffer,
   started_row |-> TRUE]

\* RsvWriter::push: <<"Panic">> when the assertion fails, else the writer after.
Panic == <<"Panic">>

\* Mutant of push: forgets the null marker of an absent value.
push_no_marker(self, value) ==
  IF ~self.started_row THEN Panic
  ELSE LET b1 == IF IsSome(value) THEN self.buffer \o value[2] ELSE self.buffer
       IN  <<"Done", [buffer |-> Append(b1, END_VALUE), started_row |-> self.started_row]>>

push(self, value) ==
  IF ~self.started_row THEN Panic
  ELSE LET b1 == IF IsSome(value) THEN self.buffer \o value[2]
                 ELSE Append(self.buffer, NULL_VALUE)
       IN  <<"Done", [buffer |-> Append(b1, END_VALUE), started_row |-> self.started_row]>>

push_str(self, value) == push(self, Some(value))

push_null(self) == push(self, None)

\* Mutant of finish: appends the row terminator whether or not a row was
\* started.
finish_always(self) == Append(self.buffer, END_ROW)

\* Mutant of finish: owes no terminator to a writer whose buffer is empty.
finish_nonempty(self) ==
  IF self.started_row /\ self.buffer # <<>> THEN Append(self.buffer, END_ROW)
  ELSE self.buffer

\* Mutant of finish: returns the buffer as it is, the terminator of the last
\* row still owed.
finish_bare(self) == self.buffer

\* RsvWriter::finish
finish(self) ==
  IF self.started_row THEN Append(self.buffer, END_ROW) ELSE self.buffer

\* The inner loop of encode_rsv: push every value of the row.
RECURSIVE encode_values(_, _)
encode_values(w, row) ==
  IF row = <<>> THEN <<"Done", w>>
  ELSE LET r == push(w, Head(row))
       IN  IF r = Panic THEN Panic ELSE encode_values(r[2], Tail(row))

\* The outer loop of encode_rsv: start_row, then the values, for every row.
RECURSIVE encode_rows(_, _)
encode_rows(w, rows) ==
  IF rows = <<>> THEN <<"Done", w>>
  ELSE LET r == encode_values(start_row(w), Head(rows))
       IN  IF r = Panic THEN Panic ELSE encode_rows(r[2], Tail(rows))

\* encode_rsv: the finished buffer, or Panic if a push asserted.
encode_rsv(rows) ==
  LET r == encode_rows(new, rows)
  IN  IF r = Panic THEN Panic ELSE <<"Done", finish(r[2])>>

\* ----------------------------------------------------------------- reader
RsvRow(bytes) == [data |-> bytes]

\* Mutant of rows_next: takes the bytes after the last row terminator as a
\* final row, as a reader of lines without a trailing newline would.
rows_next_lenient(remain) ==
  IF remain = <<>> THEN [item |-> None, remain |-> remain]
  ELSE LET terminator == position(remain, END_ROW)
       IN  IF terminator = None
           THEN [item |-> Some(Ok(RsvRow(remain))), remain |-> <<>>]
           ELSE LET parts == split_at(remain, terminator[2])
                IN  [item |-> Some(Ok(RsvRow(parts[1]))), remain |-> Tail(parts[2])]

\* Mutant of rows_next: consumes the unterminated bytes when it reports them.
rows_next_advancing(remain) ==
  IF remain = <<>> THEN [item |-> None, remain |-> remain]
  ELSE LET terminator == position(remain, END_ROW)
       IN  IF terminator = None
           THEN [item |-> Some(Err(UnterminatedRow)), remain |-> <<>>]
           ELSE LET parts == split_at(remain, terminator[2])
                IN  [item |-> Some(Ok(RsvRow(parts[1]))), remain |-> Tail(parts[2])]

\* Mutant of rows_next: hands out the row together with its terminator.
rows_next_inclusive(remain) ==
  IF remain = <<>> THEN [item |-> None, remain |-> remain]
  ELSE LET terminator == position(remain, END_ROW)
       IN  IF terminator = None
           THEN [item |-> Some(Err(UnterminatedRow)), remain |-> remain]
           ELSE LET parts == split_at(remain, terminator[2] + 1)
                IN  [item |-> Some(Ok(RsvRow(parts[1]))), remain |-> parts[2]]

\* Mutant of rows_next: leaves the row terminator it found in remain.
rows_next_stuck(remain) ==
  IF remain = <<>> THEN [item |-> None, remain |-> remain]
  ELSE LET terminator == position(remain, END_ROW)
       IN  IF terminator = None
           THEN [item |-> Some(Err(UnterminatedRow)), remain |-> remain]
           ELSE LET parts == split_at(remain, terminator[2])
                IN  [item |-> Some(Ok(RsvRow(parts[1]))), remain |-> parts[2]]

\* One poll of the closure of RsvReader::rows: the item and the new remain.
rows_next(remain) ==
  IF remain = <<>> THEN [item |-> None, remain |-> remain]
  ELSE LET terminator == position(remain, END_ROW)
       IN  IF terminator = None
           THEN [item |-> Some(Err(UnterminatedRow)), remain |-> remain]
           ELSE LET parts == split_at(remain, terminator[2])
                IN  [item |-> Some(Ok(RsvRow(parts[1]))), remain |-> Tail(parts[2])]

\* Mutant of value_item: reads an empty span as an absent value too.
value_item_empty_null(value) ==
  IF value = <<NULL_VALUE>> \/ value = <<>> THEN Some(Ok(None))
  ELSE LET r == from_utf8(value)
       IN  Some(IF IsOk(r) THEN Ok(Some(r[2])) ELSE r)

\* The item of a located value span (the match of RsvRow::values).
value_item(value) ==
  IF value = <<NULL_VALUE>> THEN Some(Ok(None))
  ELSE LET r == from_utf8(value)
       IN  Some(IF IsOk(r) THEN Ok(Some(r[2])) ELSE r)

\* Mutant of values_next: ends the sequence at bytes that no value
\* terminator follows.
values_next_silent(remain) ==
  IF remain = <<>> THEN [item |-> None, remain |-> remain]
  ELSE LET terminator == position(remain, END_VALUE)
       IN  IF terminator = None
           THEN [item |-> None, remain |-> remain]
           ELSE LET parts == split_at(remain, terminator[2])
                IN  [item |-> value_item(parts[1]), remain |-> Tail(parts[2])]

\* Mutant of values_next: takes any span that starts with the null marker
\* for an absent value.
values_next_prefix(remain) ==
  IF remain = <<>> THEN [item |-> None, remain |-> remain]
  ELSE LET terminator == position(remain, END_VALUE)
       IN  IF terminator = None
           THEN [item |-> Some(Err(UnterminatedValue)), remain |-> remain]
           ELSE LET parts == split_at(remain, terminator[2])
                    value == parts[1]
                IN  [item |-> IF value # <<>> /\ Head(value) = NULL_VALUE
                              THEN Some(Ok(None)) ELSE value_item(value),
                     remain |-> Tail(parts[2])]

\* Mutant of values_next: validates before it advances, so a span that is
\* not UTF-8 stays in remain.
values_next_sticky(remain) ==
  IF remain = <<>> THEN [item |-> None, remain |-> remain]
  ELSE LET terminator == position(remain, END_VALUE)
       IN  IF terminator = None
           THEN [item |-> Some(Err(UnterminatedValue)), remain |-> remain]
           ELSE LET parts == split_at(remain, terminator[2])
                    value == parts[1]
                    rest == Tail(parts[2])
                IN  [item |-> value_item(value),
                     remain |-> IF value_item(value) = Some(Err(BadUTF8)) THEN remain ELSE rest]

\* One poll of the closure of RsvRow::values.
values_next(remain) ==
  IF remain = <<>> THEN [item |-> None, remain |-> remain]
  ELSE LET terminator == position(remain, END_VALUE)
       IN  IF terminator = None
           THEN [item |-> Some(Err(UnterminatedValue)), remain |-> remain]
           ELSE LET parts == split_at(remain, terminator[2])
                    value == parts[1]
                    rest == Tail(parts[2])
                IN  [item |-> value_item(value), remain |-> rest]

\* A sequence as created by rows() / values(): the cursor (remain) and, as
\* history, the bytes it was created over (src) and the items it has yielded.
NoIter == [live |-> FALSE, src |-> <<>>, remain |-> <<>>, items |-> <<>>]
NewIter(bytes) == [live |-> TRUE, src |-> bytes, remain |-> bytes, items |-> <<>>]

\* The sequence after one more poll that gave n = [item, remain].
Polled(iter, n) ==
  [live |-> TRUE, src |-> iter.src, remain |-> n.remain, items |-> Append(iter.items, n.item)]

\* Several sequences alive at once: each is the closure returned by one call
\* of rows() or values() and owns its remain; kind tells which call made it.
SeqIds == {1, 2}
NoSeqs == [k \in SeqIds |-> [kind |-> "none", iter |-> NoIter]]
seq_next(kind, remain) == IF kind = "rows" THEN rows_next(remain) ELSE values_next(remain)

\* row.values().map(to owned).collect::<Result<Vec<_>, _>>(): stop at the
\* first Err item.
RECURSIVE collect_values(_, _)

\* Mutant of collect_values: an absent value becomes an owned empty string.
collect_values_default(remain, acc) ==
  LET n == values_next(remain)
  IN  IF n.item = None THEN Ok(acc)
      ELSE IF IsErr(n.item[2]) THEN n.item[2]
      ELSE LET v == n.item[2][2]
           IN  collect_values(n.remain,
                 Append(acc, Some(to_string(IF IsSome(v) THEN v[2] ELSE <<>>))))

collect_values(remain, acc) ==
  LET n == values_next(remain)
  IN  IF n.item = None THEN Ok(acc)
      ELSE IF IsErr(n.item[2]) THEN n.item[2]
      ELSE LET v == n.item[2][2]
           IN  collect_values(n.remain,
                 Append(acc, IF IsSome(v) THEN Some(to_string(v[2])) ELSE None))

\* rows().map(|row| row?.values()...collect()).collect::<Result<Vec<_>, _>>()
RECURSIVE collect_rows(_, _)

\* Mutant of collect_rows: looks for an unterminated row before it decodes
\* the values of any row.
collect_rows_eager(remain, acc) ==
  LET n == rows_next(remain)
  IN  IF n.item = None THEN Ok(acc)
      ELSE IF IsErr(n.item[2]) THEN n.item[2]
      ELSE LET rest == collect_rows(n.remain, <<>>)
               r == collect_values(n.item[2][2].data, <<>>)
           IN  IF IsErr(rest) /\ rest[2] = UnterminatedRow THEN rest
               ELSE IF IsErr(r) THEN r
               ELSE IF IsErr(rest) THEN rest
               ELSE Ok(Append(acc, r[2]) \o rest[2])

collect_rows(remain, acc) ==
  LET n == rows_next(remain)
  IN  IF n.item = None THEN Ok(acc)
      ELSE IF IsErr(n.item[2]) THEN n.item[2]
      ELSE LET r == collect_values(n.item[2][2].data, <<>>)
           IN  IF IsErr(r) THEN r
               ELSE collect_rows(n.remain, Append(acc, r[2]))

decode_rsv(bytes) == collect_rows(bytes, <<>>)

\* A &str that borrows from the decoded buffer: where it starts in the
\* buffer and how many bytes it has.  A slice taken from the front of remain
\* starts where remain starts, and remain is always a tail of the slice it
\* was cut from.
View(off, len) == [off |-> off, len |-> len]

\* row?.values().collect::<Result<Vec<_>, _>>() of decode_rsv_borrowed, for
\* the row that starts at byte base of the buffer.
RECURSIVE collect_values_borrowed(_, _, _, _)
collect_values_borrowed(base, rowdata, remain, acc) ==
  LET n == values_next(remain)
  IN  IF n.item = None THEN Ok(acc)
      ELSE IF IsErr(n.item[2]) THEN n.item[2]
      ELSE LET v == n.item[2][2]
               off == base + (Len(rowdata) - Len(remain))
           IN  collect_values_borrowed(base, rowdata, n.remain,
                 Append(acc, IF IsSome(v) THEN Some(View(off, Len(v[2]))) ELSE None))

\* rows().map(|row| row?.values().collect()).collect::<Result<Vec<_>, _>>()
RECURSIVE collect_rows_borrowed(_, _, _)
collect_rows_borrowed(bytes, remain, acc) ==
  LET n == rows_next(remain)
  IN  IF n.item = None THEN Ok(acc)
      ELSE IF IsErr(n.item[2]) THEN n.item[2]
      ELSE LET rowdata == n.item[2][2].data
               r == collect_values_borrowed(Len(bytes) - Len(remain), rowdata, rowdata, <<>>)
           IN  IF IsErr(r) THEN r
               ELSE collect_rows_borrowed(bytes, n.remain, Append(acc, r[2]))

decode_rsv_borrowed(bytes) == collect_rows_borrowed(bytes, bytes, <<>>)

\* ---------------------------------------------------------------- actions
StartRowCall == <<"start_row">>
PushCall(v) == <<"push", v>>

StartRow ==
  /\ pc = "writing"
  /\ Len(start_row(writer).buffer) <= MaxBuf
  /\ writer' = start_row(writer)
  /\ calls' = Append(calls, StartRowCall)
  /\ UNCHANGED <<pc, existing, input, data, decoded, borrowed, seqs, readerVars>>

\* A call of push, push_str or push_null that returned r.
Pushed(r, value) ==
  /\ pc = "writing"
  /\ IF r = Panic
    THEN /\ pc' = "panicked"
         /\ writer' = writer
    ELSE /\ Len(r[2].buffer) <= MaxBuf
         /\ pc' = pc
         /\ writer' = r[2]
  /\ calls' = Append(calls, PushCall(value))
  /\ UNCHANGED <<existing, input, data, decoded, borrowed, seqs, readerVars>>

Push(value) == Pushed(push(writer, value), value)

PushStr(str) == Pushed(push_str(writer, str), Some(str))

PushNull == Pushed(push_null(writer), None)

Finish ==
  /\ pc = "writing"
  /\ pc' = "finished"
  /\ data' = finish(writer)
  /\ UNCHANGED <<existing, writer, calls, input, decoded, borrowed, seqs, readerVars>>

EncodeRsv ==
  /\ pc = "encoding"
  /\ LET r == encode_rsv(input[1])
     IN  IF r = Panic
         THEN pc' = "panicked" /\ data' = data
         ELSE pc' = "finished" /\ data' = r[2]
  /\ UNCHANGED <<writerVars, decoded, borrowed, seqs, readerVars>>

DecodeRsv ==
  /\ pc \in {"finished", "raw"}
  /\ decoded = <<>>
  /\ decoded' = <<decode_rsv(data)>>
  /\ UNCHANGED <<pc, writerVars, data, borrowed, seqs, readerVars>>

DecodeRsvBorrowed ==
  /\ pc \in {"finished", "raw"}
  /\ borrowed = <<>>
  /\ borrowed' = <<decode_rsv_borrowed(data)>>
  /\ UNCHANGED <<pc, writerVars, data, decoded, seqs, readerVars>>

\* reader.rows(): a fresh sequence over the reader's data.
Rows ==
  /\ pc = "raw"
  /\ rows_iter' = NewIter(data)
  /\ UNCHANGED <<pc, writerVars, data, decoded, borrowed, seqs, cur_row, values_iter>>

\* One poll of the rows() sequence; an Ok item becomes the current row.
RowsNext ==
  /\ rows_iter.live
  /\ Len(rows_iter.items) < MaxPolls
  /\ LET n == rows_next(rows_iter.remain)
     IN  /\ rows_iter' = Polled(rows_iter, n)
         /\ cur_row' = IF n.item # None /\ IsOk(n.item[2]) THEN Some(n.item[2][2]) ELSE cur_row
  /\ UNCHANGED <<pc, writerVars, data, decoded, borrowed, seqs, values_iter>>

\* row.values(): a fresh sequence over the current row.
ValuesCall ==
  /\ IsSome(cur_row)
  /\ values_iter' = NewIter(cur_row[2].data)
  /\ UNCHANGED <<pc, writerVars, data, decoded, borrowed, seqs, rows_iter, cur_row>>

ValuesNext ==
  /\ values_iter.live
  /\ Len(values_iter.items) < MaxPolls
  /\ LET n == values_next(values_iter.remain)
     IN  values_iter' = Polled(values_iter, n)
  /\ UNCHANGED <<pc, writerVars, data, decoded, borrowed, seqs, rows_iter, cur_row>>

\* reader.rows() while other sequences are alive: let mut remain = self.data.
RowsOn(k) ==
  /\ pc = "raw"
  /\ seqs' = [seqs EXCEPT ![k] = [kind |-> "rows", iter |-> NewIter(data)]]
  /\ UNCHANGED <<pc, writerVars, data, decoded, borrowed, readerVars>>

\* row.values() while other sequences are alive: let mut remain = self.data.
ValuesOn(k) ==
  /\ IsSome(cur_row)
  /\ seqs' = [seqs EXCEPT ![k] = [kind |-> "values", iter |-> NewIter(cur_row[2].data)]]
  /\ UNCHANGED <<pc, writerVars, data, decoded, borrowed, readerVars>>

\* Mutant of NextOn: the cursor lives in the reader (or row), so a poll moves
\* every sequence of the same kind.
NextOnShared(k) ==
  /\ seqs[k].iter.live
  /\ Len(seqs[k].iter.items) < MaxPolls
  /\ LET n == seq_next(seqs[k].kind, seqs[k].iter.remain)
     IN  seqs' = [j \in SeqIds |->
                   IF j = k THEN [seqs[k] EXCEPT !.iter = Polled(seqs[k].iter, n)]
                   ELSE IF seqs[j].kind = seqs[k].kind
                        THEN [seqs[j] EXCEPT !.iter.remain = n.remain]
                        ELSE seqs[j]]
  /\ UNCHANGED <<pc, writerVars, data, decoded, borrowed, readerVars>>

\* One poll of sequence k: the closure reads and advances its own remain.
NextOn(k) ==
  /\ seqs[k].iter.live
  /\ Len(seqs[k].iter.items) < MaxPolls
  /\ LET n == seq_next(seqs[k].kind, seqs[k].iter.remain)
     IN  seqs' = [seqs EXCEPT ![k].iter = Polled(seqs[k].iter, n)]
  /\ UNCHANGED <<pc, writerVars, data, decoded, borrowed, readerVars>>

\* ---------------------------------------------------------- specifications
InitCommon ==
  /\ input = <<>>
  /\ decoded = <<>>
  /\ borrowed = <<>>
  /\ seqs = NoSeqs
  /\ calls = <<>>
  /\ rows_iter = NoIter
  /\ cur_row = None
  /\ values_iter = NoIter

\* A writer made by with_buffer(existing) (new() when existing is empty),
\* driven by hand, finished and decoded.
InitWriter ==
  /\ pc = "writing"
  /\ existing \in Bufs(MaxLen)
  /\ writer = with_buffer(existing)
  /\ data = <<>>
  /\ InitCommon

NextWriter ==
  \/ StartRow
  \/ \E value \in Values : Push(value)
  \/ \E str \in Strs : PushStr(str)
  \/ PushNull
  \/ Finish
  \/ DecodeRsv

SpecWriter == InitWriter /\ [][NextWriter]_vars

\* encode_rsv on a document, decode_rsv and decode_rsv_borrowed on its output
\* or on a raw buffer.
InitCodec ==
  /\ existing = <<>>
  /\ writer = new
  /\ calls = <<>>
  /\ decoded = <<>>
  /\ borrowed = <<>>
  /\ seqs = NoSeqs
  /\ rows_iter = NoIter
  /\ cur_row = None
  /\ values_iter = NoIter
  /\ \/ pc = "encoding" /\ input \in {<<d>> : d \in Docs} /\ data = <<>>
     \/ pc = "raw" /\ input = <<>> /\ data \in Bufs(MaxLen)

NextCodec ==
  \/ EncodeRsv
  \/ DecodeRsv
  \/ DecodeRsvBorrowed

SpecCodec == InitCodec /\ [][NextCodec]_vars

\* RsvReader::new(data) on any buffer, or RsvRow::new(bytes) on any bytes;
\* rows() and values() polled.
InitReader ==
  /\ pc = "raw"
  /\ existing = <<>>
  /\ writer = new
  /\ input = <<>>
  /\ decoded = <<>>
  /\ borrowed = <<>>
  /\ seqs = NoSeqs
  /\ calls = <<>>
  /\ rows_iter = NoIter
  /\ values_iter = NoIter
  /\ \/ data \in Bufs(MaxLen) /\ cur_row = None
     \/ data = <<>> /\ cur_row \in {Some(RsvRow(b)) : b \in Bufs(MaxLen)}

NextReader ==
  \/ Rows
  \/ RowsNext
  \/ ValuesCall
  \/ ValuesNext

SpecReader == InitReader /\ [][NextReader]_vars

\* RsvReader::new(data) and RsvRow::new(data) over the same bytes; rows() and
\* values() called and polled in any order on two sequences held at once.
InitShared ==
  /\ pc = "raw"
  /\ existing = <<>>
  /\ writer = new
  /\ input = <<>>
  /\ calls = <<>>
  /\ decoded = <<>>
  /\ borrowed = <<>>
  /\ data \in Bufs(MaxLen)
  /\ cur_row = Some(RsvRow(data))
  /\ rows_iter = NoIter
  /\ values_iter = NoIter
  /\ seqs = NoSeqs

NextShared ==
  \/ \E k \in SeqIds : RowsOn(k)
  \/ \E k \in SeqIds : ValuesOn(k)
  \/ \E k \in SeqIds : NextOn(k)

SpecShared == InitShared /\ [][NextShared]_vars

\* ---------------------------------------------------- reference semantics
\* The wire grammar and the outcome of a scan, stated over whole byte strings
\* (positions of the terminators), independently of the cursors above.
Last(s) == s[Len(s)]

\* The positions of byte c in s, and the k-th of them in increasing order.
Terms(s, c) == {i \in 1..Len(s) : s[i] = c}
NthTerm(s, c, k) == CHOOSE i \in Terms(s, c) : Cardinality({j \in Terms(s, c) : j < i}) = k - 1
SpanStart(s, c, k) == IF k = 1 THEN 1 ELSE NthTerm(s, c, k - 1) + 1

\* The spans of s that c terminates, in order, and the bytes after the last c.
Spans(s, c) ==
  [k \in 1..Cardinality(Terms(s, c)) |->
     SubSeq(s, SpanStart(s, c, k), NthTerm(s, c, k) - 1)]
Trailing(s, c) ==
  SubSeq(s, SpanStart(s, c, Cardinality(Terms(s, c)) + 1), Len(s))

RECURSIVE Concat(_)
Concat(ss) == IF ss = <<>> THEN <<>> ELSE Head(ss) \o Concat(Tail(ss))

\* value := (NULL_MARKER | utf8-bytes) VALUE_TERM
WireValue(v) == (IF v = None THEN <<254>> ELSE v[2]) \o <<255>>
\* row := value* ROW_TERM
WireRow(r) == Concat([k \in 1..Len(r) |-> WireValue(r[k])]) \o <<253>>
\* document := row*
WireDoc(d) == Concat([k \in 1..Len(d) |-> WireRow(d[k])])

\* What a terminated value span stands for.
ExpectedValue(span) ==
  IF span = <<254>> THEN Ok(None)
  ELSE IF utf8_valid_from(span, 1) THEN Ok(Some(span))
  ELSE Err(BadUTF8)

\* The items of a row in order: one per terminated span, then the error for
\* trailing bytes that no 0xFF terminates.
RowItems(r) ==
  [k \in 1..Len(Spans(r, 255)) |-> ExpectedValue(Spans(r, 255)[k])]
    \o (IF Trailing(r, 255) # <<>> THEN <<Err(UnterminatedValue)>> ELSE <<>>)

FirstErr(items) ==
  IF \E k \in 1..Len(items) : IsErr(items[k])
  THEN CHOOSE k \in 1..Len(items) : IsErr(items[k]) /\ \A j \in 1..(k - 1) : IsOk(items[j])
  ELSE 0

\* A row as a whole: its first error, else its values.
RowOutcome(r) ==
  LET items == RowItems(r)
  IN  IF FirstErr(items) > 0 THEN items[FirstErr(items)]
      ELSE Ok([k \in 1..Len(items) |-> items[k][2]])

RowOutcomes(d) == [k \in 1..Len(Spans(d, 253)) |-> RowOutcome(Spans(d, 253)[k])]

\* The first terminated row of d that holds an error, 0 if none does.
FailRow(d) == FirstErr(RowOutcomes(d))

\* A buffer as a whole: the error of the first terminated row that has one,
\* else UnterminatedRow for bytes after the last 0xFD, else every row.
DocOutcome(d) ==
  LET outs == RowOutcomes(d)
  IN  IF FailRow(d) > 0 THEN outs[FailRow(d)]
      ELSE IF Trailing(d, 253) # <<>> THEN Err(UnterminatedRow)
      ELSE Ok([k \in 1..Len(outs) |-> outs[k][2]])

\* Where the terminator of the first failing row is.
FailRowEnd(d) == NthTerm(d, 253, FailRow(d))

\* Where the first failing value of the first failing row ends: the 0xFF that
\* terminates a BadUTF8 span; for UnterminatedValue the end of the row, its
\* 0xFD included.
FailValueEnd(d) ==
  LET k == FailRow(d)
      r == Spans(d, 253)[k]
      j == FirstErr(RowItems(r))
  IN  IF RowItems(r)[j] = Err(BadUTF8)
      THEN SpanStart(d, 253, k) - 1 + NthTerm(r, 255, j)
      ELSE FailRowEnd(d)

\* decode_rsv gives the same result whatever follows the first n bytes of d.
DecidedBy(d, n) ==
  \A sfx \in Bufs(MaxLen - n) : decode_rsv(SubSeq(d, 1, n) \o sfx) = decode_rsv(d)

Encoded == pc = "finished" /\ input # <<>>
WasDecoded == decoded # <<>>

\* ------------------------------------------------------------------ claims

\* C1: round trip.  For every document (rows of absent or valid UTF-8
\* values, empty strings, empty rows and the empty document included),
\* encode_rsv does not fault and decode_rsv of its output is Ok of the same
\* rows: same number of rows, same number of values per row, equal values.
C1_RoundTrip ==
  /\ input # <<>> => pc # "panicked"
  /\ (Encoded /\ WasDecoded) =>
       /\ decoded[1] = Ok(input[1])
       /\ Len(decoded[1][2]) = Len(input[1])
       /\ \A i \in 1..Len(input[1]) :
            /\ Len(decoded[1][2][i]) = Len(input[1][i])
            /\ \A j \in 1..Len(input[1][i]) : decoded[1][2][i][j] = input[1][i][j]

\* A document with an absent value, an empty string and an empty row has
\* been encoded and decoded.
C1_Witness ==
  /\ Encoded /\ WasDecoded
  /\ input[1] = << <<None, Some(<<>>)>>, <<>> >>

\* C2: encode_rsv emits exactly the wire grammar: per row, per value, 0xFE
\* for an absent value or the string's bytes, then 0xFF; after each row 0xFD;
\* nothing else.  The documented example encodes to the documented bytes.
C2_WireGrammar ==
  /\ Encoded => data = WireDoc(input[1])
  /\ Encoded =>
       encode_rsv(<< <<Some(<<72, 101, 108, 108, 111>>), Some(<<119, 111, 114, 108, 100>>)>>,
                     <<None, Some(<<97, 115, 100, 102>>)>> >>)
         = <<"Done", <<72, 101, 108, 108, 111, 255, 119, 111, 114, 108, 100, 255, 253,
                       254, 255, 97, 115, 100, 102, 255, 253>> >>

\* A two-row document with an absent value and a two-byte character has been
\* encoded.
C2_Witness ==
  /\ Encoded
  /\ input[1] = << <<Some(<<195, 169>>)>>, <<None>> >>
  /\ data = <<195, 169, 255, 253, 254, 255, 253>>

\* C9: the empty document encodes to the empty buffer and the empty buffer
\* decodes to Ok of zero rows; a document of one empty row is another
\* document: it encodes to the single byte 0xFD, which decodes to one row of
\* zero values.  A writer on which start_row was never called finishes
\* without appending a byte.
C9_EmptyDocument ==
  /\ (Encoded /\ input[1] = <<>>) => data = <<>>
  /\ (Encoded /\ input[1] = << <<>> >>) => data = <<253>>
  /\ (Encoded /\ data = <<>>) => input[1] = <<>>
  /\ (pc \in {"finished", "raw"} /\ WasDecoded /\ data = <<>>) => decoded[1] = Ok(<<>>)
  /\ (pc \in {"finished", "raw"} /\ WasDecoded /\ data = <<253>>) => decoded[1] = Ok(<< <<>> >>)
  /\ (Encoded /\ input[1] = <<>>) =>
       \A b \in Bufs(MaxLen) : finish(with_buffer(b)) = b

\* encode_rsv of the empty document has returned the empty buffer and it has
\* been decoded.
C9_Witness ==
  /\ Encoded /\ WasDecoded
  /\ input[1] = <<>>
  /\ data = <<>>

\* C3 (as amended): decode_rsv returns Ok with every row of the buffer, or Err
\* with the first error in scan order and no partial document: the error of
\* the first terminated row that has one (its first UnterminatedValue or
\* BadUTF8), else UnterminatedRow for bytes after the last row terminator.
\* Nothing after the terminator of the failing row influences the result.
C3_FirstError ==
  WasDecoded =>
    /\ decoded[1] = DocOutcome(data)
    /\ (IsErr(decoded[1]) /\ FailRow(data) > 0) => DecidedBy(data, FailRowEnd(data))

\* A row with an unterminated value is followed by bytes that no 0xFD
\* terminates: the row's error is returned.
C3_Witness ==
  /\ pc = "raw" /\ WasDecoded
  /\ data = <<97, 253, 97>>
  /\ decoded[1] = Err(UnterminatedValue)

\* C3 as stated: ... and nothing after the failing position (the failing
\* value) influences the result.
C3_Original ==
  WasDecoded =>
    /\ decoded[1] = DocOutcome(data)
    /\ (IsErr(decoded[1]) /\ FailRow(data) > 0) => DecidedBy(data, FailValueEnd(data))

\* C4 (as amended): for every non-empty buffer whose last byte is not 0xFD,
\* decode_rsv returns Err, never Ok; the error is UnterminatedRow exactly when
\* every terminated row before the trailing bytes decodes without error, and
\* otherwise it is the UnterminatedValue or BadUTF8 of the first row that fails.
C4_MissingRowTerminator ==
  (WasDecoded /\ data # <<>> /\ Last(data) # 253) =>
    /\ IsErr(decoded[1])
    /\ decoded[1] = Err(UnterminatedRow) <=> FailRow(data) = 0
    /\ FailRow(data) > 0 =>
         /\ decoded[1] = RowOutcomes(data)[FailRow(data)]
         /\ decoded[1][2] \in {UnterminatedValue, BadUTF8}

\* A well-formed row followed by bytes that no 0xFD terminates has been decoded.
C4_Witness ==
  /\ pc = "raw" /\ WasDecoded
  /\ data = <<255, 253, 97>>
  /\ decoded[1] = Err(UnterminatedRow)

\* C4 as stated: every such buffer gives Err(UnterminatedRow).
C4_Original ==
  (WasDecoded /\ data # <<>> /\ Last(data) # 253) => decoded[1] = Err(UnterminatedRow)

\* The k-th terminated value span of the bytes a values() sequence runs over.
ValueSpan(iter, k) == Spans(iter.src, 255)[k]
NumValueSpans(iter) == Len(Spans(iter.src, 255))

\* C5: over a row whose bytes are non-empty and do not end with 0xFF,
\* values() yields one item per 0xFF-terminated span, in order, and from then
\* on Err(UnterminatedValue): it never ends (None), and never yields the
\* trailing bytes as a value.  Decoding 'abc' 0xFD gives UnterminatedValue.
C5_UnterminatedValue ==
  /\ (values_iter.live /\ values_iter.src # <<>> /\ Last(values_iter.src) # 255) =>
       \A i \in 1..Len(values_iter.items) :
         IF i <= NumValueSpans(values_iter)
         THEN values_iter.items[i] \in
                {Some(Ok(None)), Some(Ok(Some(ValueSpan(values_iter, i)))), Some(Err(BadUTF8))}
         ELSE values_iter.items[i] = Some(Err(UnterminatedValue))
  /\ values_iter.live => decode_rsv(<<97, 98, 99, 253>>) = Err(UnterminatedValue)

\* A row of one terminated value and trailing bytes has been polled past its
\* last terminator.
C5_Witness ==
  /\ values_iter.src = <<97, 255, 97>>
  /\ values_iter.items =
       <<Some(Ok(Some(<<97>>))), Some(Err(UnterminatedValue)), Some(Err(UnterminatedValue))>>

\* C6: the item of a terminated value span is Ok(None) if and only if the
\* span is exactly the byte 0xFE; the empty span gives Ok(Some("")); any other
\* span gives Ok(Some(its bytes)) when it is valid UTF-8 and Err(BadUTF8)
\* otherwise (0xFE 0xFE included).  So a value pushed as absent and one pushed
\* as the empty string decode to different results.
C6_ValueClassification ==
  /\ values_iter.live =>
       \A i \in 1..Len(values_iter.items) :
         i <= NumValueSpans(values_iter) =>
           LET span == ValueSpan(values_iter, i)
               item == values_iter.items[i]
           IN  /\ item = Some(Ok(None)) <=> span = <<254>>
               /\ span = <<>> => item = Some(Ok(Some(<<>>)))
               /\ (span # <<254>> /\ utf8_valid_from(span, 1)) => item = Some(Ok(Some(span)))
               /\ (span # <<254>> /\ ~utf8_valid_from(span, 1)) => item = Some(Err(BadUTF8))
  /\ values_iter.live =>
       /\ decode_rsv(encode_rsv(<< <<None>> >>)[2]) = Ok(<< <<None>> >>)
       /\ decode_rsv(encode_rsv(<< <<Some(<<>>)>> >>)[2]) = Ok(<< <<Some(<<>>)>> >>)

\* A span of two null markers has been yielded as BadUTF8.
C6_Witness ==
  /\ values_iter.src = <<254, 254, 255>>
  /\ values_iter.items = <<Some(Err(BadUTF8))>>

IsPush(c) == c[1] = "push"
StartedBefore(i) == \E j \in 1..(i - 1) : calls[j] = StartRowCall
NumStarts(i) == Cardinality({j \in 1..i : calls[j] = StartRowCall})

\* C7: a call of push (push_str, push_null) faults exactly when start_row was
\* never called on the writer before it, whatever the buffer the writer was
\* created with; once start_row has been called every later push succeeds.
\* The fault leaves the writer as it was created.
C7_PushNeedsStartedRow ==
  /\ \A i \in 1..Len(calls) :
       IsPush(calls[i]) => (~StartedBefore(i) <=> (pc = "panicked" /\ i = Len(calls)))
  /\ pc = "panicked" =>
       /\ calls # <<>> /\ IsPush(Last(calls))
       /\ writer = [buffer |-> existing, started_row |-> FALSE]

\* push_null has faulted on a writer created over a complete document.
C7_Witness ==
  /\ pc = "panicked"
  /\ existing = <<97, 255, 253>>
  /\ calls = <<PushCall(None)>>

\* C8: on a writer created empty, after any start_row / push calls and
\* finish, the decoded document has as many rows as start_row was called, and
\* every start_row directly followed by start_row or by finish decodes as a
\* row of zero values.
C8_RowPerStartRow ==
  (pc = "finished" /\ existing = <<>> /\ WasDecoded) =>
    /\ IsOk(decoded[1])
    /\ Len(decoded[1][2]) = NumStarts(Len(calls))
    /\ \A i \in 1..Len(calls) :
         (calls[i] = StartRowCall /\ (i = Len(calls) \/ calls[i + 1] = StartRowCall)) =>
           decoded[1][2][NumStarts(i)] = <<>>

\* An empty row between two rows that hold a value has been written and decoded.
C8_Witness ==
  /\ pc = "finished" /\ existing = <<>> /\ WasDecoded
  /\ calls = <<StartRowCall, PushCall(Some(<<>>)), StartRowCall, StartRowCall, PushCall(Some(<<>>))>>
  /\ decoded[1] = Ok(<< <<Some(<<>>)>>, <<>>, <<Some(<<>>)>> >>)

\* One more poll of the same sequence: an unterminated error leaves the
\* cursor where it was, and is followed by the same error.
StickyStep(before, after, e) ==
  Len(after.items) = Len(before.items) + 1 =>
    /\ Last(after.items) = Some(Err(e)) => after.remain = before.remain
    /\ (before.items # <<>> /\ Last(before.items) = Some(Err(e))) =>
         Last(after.items) = Some(Err(e))

\* C10: once rows() has yielded Err(UnterminatedRow) every later poll yields
\* it again, never None or Ok; likewise values() and Err(UnterminatedValue).
\* The failing poll leaves the cursor unchanged.
C10_StickyError ==
  [][/\ StickyStep(rows_iter, rows_iter', UnterminatedRow)
     /\ StickyStep(values_iter, values_iter', UnterminatedValue)]_vars

\* Both sequences have yielded their unterminated error twice in a row.
C10_Witness ==
  /\ Len(rows_iter.items) >= 2
  /\ rows_iter.items[Len(rows_iter.items)] = Some(Err(UnterminatedRow))
  /\ rows_iter.items[Len(rows_iter.items) - 1] = Some(Err(UnterminatedRow))
  /\ Len(values_iter.items) >= 2
  /\ values_iter.items[Len(values_iter.items)] = Some(Err(UnterminatedValue))
  /\ values_iter.items[Len(values_iter.items) - 1] = Some(Err(UnterminatedValue))

\* The writer that the calls cs leave when made on the writer w (a faulting
\* push ends the calls).
RECURSIVE Replay(_, _)
Replay(w, cs) ==
  IF cs = <<>> THEN w
  ELSE IF Head(cs) = StartRowCall THEN Replay(start_row(w), Tail(cs))
  ELSE LET r == push(w, Head(cs)[2])
       IN  IF r = Panic THEN w ELSE Replay(r[2], Tail(cs))

\* C11: with_buffer(existing) only appends.  After any start_row / push calls
\* the buffer is existing followed by the bytes the same calls produce on a
\* writer made by new(), and finish returns existing followed by what finish
\* returns there; no byte of existing is changed or removed.  The row-started
\* flag begins false whatever existing holds, so the first start_row writes no
\* row terminator.
C11_WithBufferAppends ==
  pc \in {"writing", "panicked", "finished"} =>
    LET fresh == Replay(new, calls)
    IN  /\ writer.buffer = existing \o fresh.buffer
        /\ writer.started_row = fresh.started_row
        /\ SubSeq(writer.buffer, 1, Len(existing)) = existing
        /\ pc = "finished" => data = existing \o finish(fresh)
        /\ calls = <<>> => ~writer.started_row
        /\ calls = <<StartRowCall>> => writer.buffer = existing

\* A writer over a buffer that ends inside a value has been given a row and
\* finished.
C11_Witness ==
  /\ pc = "finished"
  /\ existing = <<97>>
  /\ calls = <<StartRowCall, PushCall(None)>>
  /\ data = <<97, 254, 255, 253>>

\* The bytes a borrowed view shows, read from the buffer it borrows from.
Deref(bytes, view) == SubSeq(bytes, view.off + 1, view.off + view.len)

\* A result of decode_rsv_borrowed with every view replaced by its bytes.
Deborrow(bytes, res) ==
  IF IsErr(res) THEN res
  ELSE Ok([i \in 1..Len(res[2]) |->
             [j \in 1..Len(res[2][i]) |->
                IF IsSome(res[2][i][j]) THEN Some(Deref(bytes, res[2][i][j][2])) ELSE None]])

\* C12: decode_rsv_borrowed and decode_rsv agree on every buffer: the same
\* Error variant, or Ok with the same rows and values, every borrowed string
\* lying inside the buffer and showing the bytes of the owned string.
C12_BorrowedAgrees ==
  (decoded # <<>> /\ borrowed # <<>>) =>
    /\ IsOk(borrowed[1]) <=> IsOk(decoded[1])
    /\ Deborrow(data, borrowed[1]) = decoded[1]
    /\ IsOk(borrowed[1]) =>
         \A i \in 1..Len(borrowed[1][2]) : \A j \in 1..Len(borrowed[1][2][i]) :
           IsSome(borrowed[1][2][i][j]) =>
             borrowed[1][2][i][j][2].off + borrowed[1][2][i][j][2].len <= Len(data)

\* The encoding of two rows, the second holding a string, has been decoded
\* both ways; the borrowed string starts at the fourth byte of the buffer.
C12_Witness ==
  /\ pc = "finished"
  /\ data = <<254, 255, 253, 97, 255, 253>>
  /\ decoded = <<Ok(<< <<None>>, <<Some(<<97>>)>> >>)>>
  /\ borrowed = <<Ok(<< <<None>>, <<Some(View(3, 1))>> >>)>>

\* The items a sequence of the given kind yields when it is the only sequence
\* over bytes and is polled n times.
RECURSIVE AloneFrom(_, _, _)
AloneFrom(kind, remain, n) ==
  IF n = 0 THEN <<>>
  ELSE LET r == seq_next(kind, remain)
       IN  <<r.item>> \o AloneFrom(kind, r.remain, n - 1)

\* C13: sequences over the same buffer are independent and the reader keeps
\* no cursor: a call of rows() or values() starts at the beginning of the
\* same bytes, every sequence has yielded exactly what it yields when polled
\* alone as often, and a step leaves the buffer, the row and every other
\* sequence as they were.
C13_Independent ==
  [][ /\ data' = data
      /\ cur_row' = cur_row
      /\ \A k \in SeqIds :
           /\ seqs'[k] # seqs[k] => \A j \in SeqIds \ {k} : seqs'[j] = seqs[j]
           /\ seqs'[k].iter.live =>
                /\ seqs'[k].iter.src = data
                /\ seqs'[k].iter.items = <<>> => seqs'[k].iter.remain = data
                /\ seqs'[k].iter.items =
                     AloneFrom(seqs'[k].kind, data, Len(seqs'[k].iter.items)) ]_vars

\* Two rows() sequences over one buffer of two rows: the first has been
\* polled to the end, the second has yielded only the first row since.
C13_Witness ==
  /\ data = <<97, 253, 253>>
  /\ seqs[1].kind = "rows" /\ seqs[2].kind = "rows"
  /\ Len(seqs[1].iter.items) = 3
  /\ seqs[1].iter.remain = <<>>
  /\ seqs[2].iter.items = <<Some(Ok(RsvRow(<<97>>)))>>
  /\ seqs[2].iter.remain = <<253>>

\* Items that are Ok, and whether a sequence has yielded None or an Err.
IsOkItem(item) == item # None /\ IsOk(item[2])
CountOk(items) == Cardinality({i \in 1..Len(items) : IsOkItem(items[i])})
Ended(iter) == \E i \in 1..Len(iter.items) : ~IsOkItem(iter.items[i])

\* A poll that took the sequence from before to after and yielded Ok has
\* shortened remain.
OkShortens(before, after) ==
  (/\ before.live
   /\ after.src = before.src
   /\ Len(after.items) = Len(before.items) + 1
   /\ IsOkItem(Last(after.items))) => Len(after.remain) < Len(before.remain)

\* C14: a poll of rows() or values() that yields Ok shortens remain by at
\* least one byte; over n bytes a sequence yields at most n Ok items, and
\* rows() polled n + 1 times has reached None or Err(UnterminatedRow) right
\* after its Ok items; decode_rsv and decode_rsv_borrowed then return a
\* result for those bytes, with as many rows as rows() yielded when Ok.
C14_Terminates ==
  [][ /\ OkShortens(rows_iter, rows_iter')
      /\ OkShortens(values_iter, values_iter')
      /\ CountOk(rows_iter'.items) <= Len(rows_iter'.src)
      /\ CountOk(values_iter'.items) <= Len(values_iter'.src)
      /\ Len(rows_iter'.items) > Len(rows_iter'.src) =>
           /\ Ended(rows_iter')
           /\ rows_iter'.items[CountOk(rows_iter'.items) + 1]
                \in {None, Some(Err(UnterminatedRow))}
           /\ \A i \in 1..CountOk(rows_iter'.items) : IsOkItem(rows_iter'.items[i])
      /\ Ended(rows_iter') =>
           LET owned == decode_rsv(rows_iter'.src)
               views == decode_rsv_borrowed(rows_iter'.src)
           IN  /\ IsOk(owned) \/ IsErr(owned)
               /\ IsOk(views) \/ IsErr(views)
               /\ IsOk(owned) => Len(owned[2]) = CountOk(rows_iter'.items)
               /\ IsOk(views) => Len(views[2]) = CountOk(rows_iter'.items) ]_vars

\* rows() over three empty rows has yielded three Ok items, one per byte,
\* and then None.
C14_Witness ==
  /\ data = <<253, 253, 253>>
  /\ rows_iter.remain = <<>>
  /\ CountOk(rows_iter.items) = 3
  /\ Len(rows_iter.items) = 4
  /\ Last(rows_iter.items) = None

\* How often byte c occurs in s; the calls of start_row and push so far; the bytes a call
\* appended to the buffer.
Count(s, c) == Cardinality(Terms(s, c))
StartRowCalls == NumStarts(Len(calls))
NumPushes == Cardinality({j \in 1..Len(calls) : IsPush(calls[j])})
Appended(before, after) == SubSeq(after, Len(before) + 1, Len(after))

\* C15: the row terminator is written lazily.  On a writer made by new(),
\* after k >= 1 calls of start_row the buffer holds exactly k - 1 bytes 0xFD
\* and one 0xFF per call of push, and with no call of start_row it is empty.
\* A call of push appends no 0xFD, a call of start_row no 0xFF, and finish
\* appends exactly one 0xFD if start_row was called and nothing otherwise.
C15_LazyRowTerminator ==
  [][ /\ existing = <<>> =>
           IF StartRowCalls' >= 1
           THEN /\ Count(writer'.buffer, END_ROW) = StartRowCalls' - 1
                /\ Count(writer'.buffer, END_VALUE) = NumPushes'
           ELSE writer'.buffer = <<>>
      /\ calls' # calls =>
           /\ SubSeq(writer'.buffer, 1, Len(writer.buffer)) = writer.buffer
           /\ IsPush(Last(calls')) =>
                Count(Appended(writer.buffer, writer'.buffer), END_ROW) = 0
           /\ Last(calls') = StartRowCall =>
                Count(Appended(writer.buffer, writer'.buffer), END_VALUE) = 0
      /\ (pc = "writing" /\ pc' = "finished") =>
           data' = writer.buffer \o
                     (IF StartRowCalls >= 1 THEN <<END_ROW>> ELSE <<>>) ]_vars

\* new(), two rows of one value each, finished: one 0xFD was in the buffer
\* before finish, which added the second.
C15_Witness ==
  /\ pc = "finished"
  /\ existing = <<>>
  /\ calls = <<StartRowCall, PushCall(None), StartRowCall, PushCall(Some(<<>>))>>
  /\ writer.buffer = <<254, 255, 253, 255>>
  /\ data = <<254, 255, 253, 255, 253>>

\* The rows that the first n items of a rows() sequence hold, each followed
\* by a row terminator.
YieldedWire(items, n) ==
  Concat([i \in 1..n |-> items[i][2][2].data \o <<253>>])

\* C16: the row scan loses and invents no bytes.  The rows yielded so far,
\* each followed by 0xFD, followed by remain, are the buffer; no yielded row
\* holds a 0xFD; the Ok items come first, one per 0xFD of the buffer, and
\* the item after them is None if and only if the buffer is empty or ends
\* with 0xFD, and Err(UnterminatedRow) otherwise.
C16_RowScanExact ==
  rows_iter.live =>
    LET items == rows_iter.items
        src == rows_iter.src
        n == CountOk(items)
    IN  /\ \A i \in 1..n : IsOkItem(items[i])
        /\ YieldedWire(items, n) \o rows_iter.remain = src
        /\ \A i \in 1..n : Count(items[i][2][2].data, 253) = 0
        /\ n <= Count(src, 253)
        /\ Len(items) > n =>
             /\ n = Count(src, 253)
             /\ rows_iter.remain = Trailing(src, 253)
             /\ \A i \in (n + 1)..Len(items) :
                  /\ items[i] = None <=> (src = <<>> \/ Last(src) = 253)
                  /\ items[i] = Some(Err(UnterminatedRow)) <=>
                       (src # <<>> /\ Last(src) # 253)

\* One terminated row and a byte after it: rows() has yielded the row and
\* then the error, with the byte still in remain.
C16_Witness ==
  /\ rows_iter.src = <<97, 253, 97>>
  /\ rows_iter.items = <<Some(Ok(RsvRow(<<97>>))), Some(Err(UnterminatedRow))>>
  /\ rows_iter.remain = <<97>>

\* The item that poll k of a values() sequence over bytes r is due: the k-th
\* terminated span, then the error for unterminated trailing bytes, or None.
DueItem(r, k) ==
  IF k <= Len(Spans(r, 255)) THEN Some(ExpectedValue(Spans(r, 255)[k]))
  ELSE IF Trailing(r, 255) # <<>> THEN Some(Err(UnterminatedValue))
  ELSE None

\* C17: Err(BadUTF8) is not sticky in values().  The poll that yields it has
\* moved the cursor past the terminator of the invalid span, and the poll
\* after it yields the item of the following span (None at the end of the
\* row), which may be Ok.
C17_BadUtf8Advances ==
  [][ (/\ values_iter.live
       /\ values_iter'.src = values_iter.src
       /\ Len(values_iter'.items) = Len(values_iter.items) + 1) =>
        LET k == Len(values_iter'.items)
        IN  /\ Last(values_iter'.items) = Some(Err(BadUTF8)) =>
                 /\ Len(values_iter'.remain) < Len(values_iter.remain)
                 /\ values_iter'.remain =
                      SubSeq(values_iter.src, NthTerm(values_iter.src, 255, k) + 1,
                             Len(values_iter.src))
            /\ (k > 1 /\ values_iter.items[k - 1] = Some(Err(BadUTF8))) =>
                 Last(values_iter'.items) = DueItem(values_iter.src, k) ]_vars

\* A lone continuation byte as first value and an empty string as second:
\* the row has yielded Err(BadUTF8) and then an Ok item.
C17_Witness ==
  /\ values_iter.src = <<169, 255, 255>>
  /\ values_iter.items = <<Some(Err(BadUTF8)), Some(Ok(Some(<<>>)))>>
  /\ values_iter.remain = <<>>

\* C18: the encoding is canonical.  A buffer that decode_rsv accepts is,
\* byte for byte, what encode_rsv makes of the decoded rows, and no other
\* buffer decodes to the same rows (compared among the raw buffers).
C18_Canonical ==
  (decoded # <<>> /\ IsOk(decoded[1])) =>
    /\ encode_rsv(decoded[1][2]) = <<"Done", data>>
    /\ pc = "raw" =>
         \A other \in Bufs(MaxLen) : decode_rsv(other) = decoded[1] => other = data

\* A raw buffer of one row whose only value is absent has been decoded.
C18_Witness ==
  /\ pc = "raw"
  /\ data = <<254, 255, 253>>
  /\ decoded = <<Ok(<< <<None>> >>)>>

\* The document a sequence of writer calls goes through: start_row opens a
\* row, push adds a value to the open row.
RECURSIVE DocOfCalls(_, _)
DocOfCalls(cs, doc) ==
  IF cs = <<>> THEN doc
  ELSE IF Head(cs) = StartRowCall THEN DocOfCalls(Tail(cs), Append(doc, <<>>))
  ELSE DocOfCalls(Tail(cs),
         [doc EXCEPT ![Len(doc)] = Append(doc[Len(doc)], Head(cs)[2])])

\* The documents whose encoding fits the buffers a writer is created with.
Prefixes == DocsOfSize(MaxLen)

\* C19: appending is concatenation of documents.  A writer created with
\* encode_rsv(A), driven through the rows of B and finished, returns
\* encode_rsv(A ++ B), which is encode_rsv(A) ++ encode_rsv(B) and decodes to
\* the rows of A followed by the rows of B.
C19_AppendIsConcat ==
  pc = "finished" =>
    \A A \in Prefixes :
      encode_rsv(A) = <<"Done", existing>> =>
        LET B == DocOfCalls(calls, <<>>)
        IN  /\ <<"Done", data>> = encode_rsv(A \o B)
            /\ data = encode_rsv(A)[2] \o encode_rsv(B)[2]
            /\ decode_rsv(data) = Ok(A \o B)
            /\ decoded # <<>> => decoded[1] = Ok(A \o B)

\* A writer created with the encoding of one row holding an empty string
\* has been given a second such row, finished and decoded.
C19_Witness ==
  /\ pc = "finished"
  /\ existing = <<255, 253>>
  /\ calls = <<StartRowCall, PushCall(Some(<<>>))>>
  /\ data = <<255, 253, 255, 253>>
  /\ decoded = <<Ok(<< <<Some(<<>>)>>, <<Some(<<>>)>> >>)>>

====
